---- MODULE Spec2Model ----
(***************************************************************************)
(* A model of ctts/utils.py: the batch dispatcher (batch_agenerate), the   *)
(* task runner (run_task), the alarm-based timeout decorator (timeout) and *)
(* the enum normaliser (convert_to_enum).                                  *)
(*                                                                         *)
(* It also covers the adapters' entry points (openai, cartesia, hume), the  *)
(* synchronous facades of hume, cartesia's WAV wrapping and UTTSClient.     *)
(*                                                                         *)
(* The specifications of the module:                                       *)
(*   Spec         one run of batch_agenerate on an asyncio event loop      *)
(*   FairSpec     the same run under fair scheduling, the clock standing   *)
(*   SpecTimeout  calls wrapped with timeout(N), possibly nested           *)
(*   SpecEnum     convert_to_enum applied to drawn (class, value) inputs   *)
(*   SpecAdapter  one call of an adapter entry point                       *)
(*   SpecFacade   one call of a synchronous facade of hume                 *)
(*   SpecClient   the construction of a UTTSClient                         *)
(*   SpecWav      one call of _wrap_pcm_f32_to_wav                         *)
(***************************************************************************)
EXTENDS Integers, Sequences, FiniteSets, TLC

VARIABLES
    \* ---- batch_agenerate / run_task --------------------------------------
    tasks,       \* the caller's task list (argument of batch_agenerate)
    pc,          \* position of batch_agenerate's own coroutine
    raised,      \* the exception batch_agenerate ended with, or None
    coros,       \* _tasks: the run_task coroutine objects built so far
    st,          \* per task index: state of its asyncio task
    calls,       \* per task index: how often its capability was invoked
    start_time,  \* per task index: run_task's start_time
    outcome,     \* per task index: what the capability returned or raised
    taskres,     \* per task index: what the asyncio task ended with
    ready,       \* the event loop's FIFO of ready handles
    getter,      \* TRUE while batch_agenerate is suspended in done.get()
    done,        \* as_completed's queue of finished tasks
    results,     \* the local list `results`
    displayed,   \* observer notifications sent with display(...)
    stdout,      \* lines written with print(...)
    finished,    \* history: task indices in the order run_task ended
    now,         \* time.time()
    \* ---- timeout(seconds) ------------------------------------------------
    stack,       \* the wrapped calls in progress, outermost first
    alarm,       \* seconds left on the process-wide SIGALRM timer, 0 = off
    handler,     \* the process-wide SIGALRM handler (the wrapper that set it)
    propagating, \* the exception that is unwinding the stack, if any
    ended,       \* history of wrapped calls that ended, with how they ended
    captured,    \* run_task's record for the outermost call, once it ended
    \* ---- convert_to_enum -------------------------------------------------
    enum_class,  \* argument enum_class
    value,       \* argument value
    ret,         \* what the last call returned or raised
    ncalls,      \* how many calls were made on this input
    \* ---- adapter entry points --------------------------------------------
    entry,       \* the entry point called
    options,     \* the closed-set options passed, in parameter order
    texts,       \* the number of texts passed (entry points taking a list)
    configured,  \* TRUE when the vendor's settings are configured
    apc,         \* position in the entry point's body: next operation
    netcalls,    \* vendor network calls made so far
    aresult,     \* how the call ended
    \* ---- synchronous facades of hume -------------------------------------
    facade,      \* the facade called
    env,         \* the event loop of the calling thread
    fpc,         \* position in the facade
    attempt,     \* 1 in the try body, 2 in the except handler
    patched,     \* TRUE once nest_asyncio.apply() has run
    driven,      \* the event loops driven for this call
    opruns,      \* how often the asynchronous operation was started
    requests,    \* how many requests the operation sent to the vendor
    failures,    \* the errors the asynchronous operation raised, in order
    fresult,     \* how the facade ended
    \* ---- UTTSClient ------------------------------------------------------
    keys,        \* the API keys passed to UTTSClient(...)
    client,      \* the attributes of the UTTSClient assigned so far
    \* ---- _wrap_pcm_f32_to_wav --------------------------------------------
    floats,      \* the float32 samples of raw_data
    sample_rate, \* argument sample_rate
    wpc,         \* position in _wrap_pcm_f32_to_wav
    ints,        \* the int16 samples
    wav          \* the WAV file written

batchVars == <<tasks, pc, raised, coros, st, calls, start_time, outcome, taskres, ready,
               getter, done, results, displayed, stdout, finished, now>>
timeoutVars == <<stack, alarm, handler, propagating, ended, captured>>
enumVars == <<enum_class, value, ret, ncalls>>
adapterVars == <<entry, options, texts, configured, apc, netcalls, aresult>>
facadeVars == <<facade, env, fpc, attempt, patched, driven, opruns, requests, failures,
               fresult>>
clientVars == <<keys, client>>
wavVars == <<floats, sample_rate, wpc, ints, wav>>
extVars == <<adapterVars, facadeVars, clientVars, wavVars>>
vars == <<batchVars, timeoutVars, enumVars, extVars>>

(***************************************************************************)
(* Bounds of the model.                                                    *)
(***************************************************************************)
MaxTasks == 2
MaxClock == 1
MaxDepth == 2
MaxCalls == 3
MaxSeconds == 2
MaxAge == 3
MaxConverts == 3

None == "None"

\* A variable that holds a record and was not assigned yet.
Unset == [unset |-> TRUE]

\* start_time of a run_task that has not started.
NotStarted == 0 - 1

(***************************************************************************)
(* Exceptions. An exception is a class name and its args; the classes form *)
(* Python's hierarchy: TimeoutException(Exception), ValueError(Exception), *)
(* and asyncio.CancelledError, which derives from BaseException only.      *)
(***************************************************************************)
Base(cls) ==
    CASE cls = "TimeoutException" -> "Exception"
      [] cls = "ValueError" -> "Exception"
      [] cls = "Exception" -> "BaseException"
      [] cls = "CancelledError" -> "BaseException"
      [] OTHER -> None

RECURSIVE IsSubclass(_, _)
IsSubclass(cls, parent) ==
    IF cls = parent THEN TRUE
    ELSE IF cls = None THEN FALSE
    ELSE IsSubclass(Base(cls), parent)

\* str(e) of a BaseException: "" without args, the argument itself with one.
Str(e) == IF Len(e.args) = 0 THEN "" ELSE e.args[1]

Exc(cls, args) == [cls |-> cls, args |-> args]

\* What awaiting a capability can end with: a payload, or a raised exception.
Raised ==
    { Exc("Exception", <<"vendor error">>),
      Exc("Exception", << >>),
      Exc("TimeoutException", <<"Function 'f' timed out after 1s">>),
      Exc("CancelledError", << >>) }

Returned == { [payload |-> "audio"] }

Outcomes == Returned \cup Raised

IsRaised(o) == "cls" \in DOMAIN o

(***************************************************************************)
(* The task list. A task tuple is a Python tuple, modelled as a sequence:  *)
(* (func, text), (func, text, params), or a malformed one. A parameter     *)
(* mapping is a set of <<key, value>> pairs.                               *)
(***************************************************************************)
EmptyParams == {}

\* Well-formed entries, a 2-tuple and a 3-tuple, and malformed ones.
WellFormed(k) ==
    IF k % 2 = 1 THEN <<"f", "hello">> ELSE <<"g", "world", {<<"voice", "nova">>}>>

Malformed == { <<"f">>, <<"g", "world", EmptyParams, "extra">> }

\* The task lists of length n: 2-tuples and 3-tuples alternating, starting
\* with either, and the same with one entry replaced by a malformed one.
TaskLists(n) ==
    LET good == { [k \in 1 .. n |-> WellFormed(k + d)] : d \in {0, 1} }
    IN  good \cup { [g EXCEPT ![p] = m] : g \in good, p \in 1 .. n, m \in Malformed }

Indices == 0 .. (Len(tasks) - 1)

\* The set of all orders (sequences without repetition) of a finite set.
RECURSIVE Orders(_)
Orders(S) ==
    IF S = {} THEN { << >> }
    ELSE UNION { { <<x>> \o q : q \in Orders(S \ {x}) } : x \in S }

Range(q) == { q[k] : k \in 1 .. Len(q) }

(***************************************************************************)
(* run_task: awaits func(text, **params), which ends with outcome o, and   *)
(* builds the result record; start is start_time and t the clock when the  *)
(* capability ended. The value is what run_task itself ends with: a        *)
(* returned record, or an exception that `except Exception` lets through.  *)
(***************************************************************************)
RunTask_DefaultIndex(c, o, start, t) ==
    IF ~IsRaised(o)
    THEN [kind |-> "return",
          rec |-> [index |-> 0, func |-> c.func, text |-> c.text,
                   params |-> c.params, result |-> o.payload,
                   elapsed |-> t - start, success |-> TRUE]]
    ELSE IF IsSubclass(o.cls, "Exception")
    THEN [kind |-> "return",
          rec |-> [index |-> 0, func |-> c.func, text |-> c.text,
                   params |-> c.params, error |-> Str(o),
                   elapsed |-> t - start, success |-> FALSE]]
    ELSE [kind |-> "raise", exc |-> o]

RunTask_BareExcept(c, o, start, t) ==
    IF ~IsRaised(o)
    THEN [kind |-> "return",
          rec |-> [index |-> c.index, func |-> c.func, text |-> c.text,
                   params |-> c.params, result |-> o.payload,
                   elapsed |-> t - start, success |-> TRUE]]
    ELSE [kind |-> "return",
          rec |-> [index |-> c.index, func |-> c.func, text |-> c.text,
                   params |-> c.params, error |-> Str(o),
                   elapsed |-> t - start, success |-> FALSE]]

RunTask_ElapsedOfBatch(c, o, start, t) ==
    IF ~IsRaised(o)
    THEN [kind |-> "return",
          rec |-> [index |-> c.index, func |-> c.func, text |-> c.text,
                   params |-> c.params, result |-> o.payload,
                   elapsed |-> t, success |-> TRUE]]
    ELSE IF IsSubclass(o.cls, "Exception")
    THEN [kind |-> "return",
          rec |-> [index |-> c.index, func |-> c.func, text |-> c.text,
                   params |-> c.params, error |-> Str(o),
                   elapsed |-> t, success |-> FALSE]]
    ELSE [kind |-> "raise", exc |-> o]

RunTask(c, o, start, t) ==
    IF ~IsRaised(o)
    THEN [kind |-> "return",
          rec |-> [index |-> c.index, func |-> c.func, text |-> c.text,
                   params |-> c.params, result |-> o.payload,
                   elapsed |-> t - start, success |-> TRUE]]
    ELSE IF IsSubclass(o.cls, "Exception")
    THEN [kind |-> "return",
          rec |-> [index |-> c.index, func |-> c.func, text |-> c.text,
                   params |-> c.params, error |-> Str(o),
                   elapsed |-> t - start, success |-> FALSE]]
    ELSE [kind |-> "raise", exc |-> o]

\* The observer notification of one result: the table, then the audio or
\* the printed error text.
Notice(result, n) ==
    [n |-> n, index |-> result.index, model |-> result.func, text |-> result.text,
     params |-> result.params, time |-> result.elapsed,
     status |-> IF result.success THEN "Success" ELSE "Failed",
     shown |-> IF result.success THEN result.result ELSE result.error]

Step(k) == [kind |-> "step", i |-> k]
Callback(k) == [kind |-> "cb", i |-> k]
Wake == [kind |-> "wake", i |-> -1]

TimeoutIdle ==
    /\ stack = << >>
    /\ alarm = 0
    /\ handler = Unset
    /\ propagating = Unset
    /\ ended = << >>
    /\ captured = Unset

EnumIdle ==
    /\ enum_class = Unset
    /\ value = Unset
    /\ ret = Unset
    /\ ncalls = 0

AdapterIdle ==
    /\ entry = None
    /\ options = << >>
    /\ texts = 0
    /\ configured = TRUE
    /\ apc = 0
    /\ netcalls = 0
    /\ aresult = Unset

FacadeIdle ==
    /\ facade = None
    /\ env = None
    /\ fpc = "idle"
    /\ attempt = 0
    /\ patched = FALSE
    /\ driven = {}
    /\ opruns = 0
    /\ requests = 0
    /\ failures = << >>
    /\ fresult = Unset

ClientIdle ==
    /\ keys = << >>
    /\ client = << >>

WavIdle ==
    /\ floats = << >>
    /\ sample_rate = 0
    /\ wpc = "idle"
    /\ ints = << >>
    /\ wav = Unset

ExtIdle == AdapterIdle /\ FacadeIdle /\ ClientIdle /\ WavIdle

BatchInit ==
    /\ \E n \in 0 .. MaxTasks : tasks \in TaskLists(n)
    /\ pc = "build"
    /\ raised = Unset
    /\ coros = << >>
    /\ st = [k \in Indices |-> "none"]
    /\ calls = [k \in Indices |-> 0]
    /\ start_time = [k \in Indices |-> NotStarted]
    /\ outcome = [k \in Indices |-> Unset]
    /\ taskres = [k \in Indices |-> Unset]
    /\ ready = << >>
    /\ getter = FALSE
    /\ done = << >>
    /\ results = << >>
    /\ displayed = << >>
    /\ stdout = << >>
    /\ finished = << >>
    /\ now = 0

Init == BatchInit /\ TimeoutIdle /\ EnumIdle /\ ExtIdle

IsWellFormed_Lenient(task_tuple) == Len(task_tuple) >= 2

\* len(task_tuple) == 2 or len(task_tuple) == 3; anything else raises.
IsWellFormed(task_tuple) == Len(task_tuple) \in {2, 3}

\* One iteration of `for i, task_tuple in enumerate(tasks)`.
ParamsOf_NoParams(task_tuple) == EmptyParams

\* `func, text = task_tuple; params = {}` for a pair,
\* `func, text, params = task_tuple` for a triple
ParamsOf(task_tuple) ==
    IF Len(task_tuple) = 2 THEN EmptyParams ELSE task_tuple[3]

BuildTask ==
    /\ pc = "build"
    /\ Len(coros) < Len(tasks)
    /\ LET i == Len(coros)
           task_tuple == tasks[i + 1]
       IN  IF IsWellFormed(task_tuple)
           THEN /\ coros' = Append(coros,
                        [func |-> task_tuple[1], text |-> task_tuple[2],
                         params |-> ParamsOf(task_tuple),
                         index |-> i])
                /\ st' = [st EXCEPT ![i] = "created"]
                /\ UNCHANGED <<pc, raised>>
           ELSE /\ pc' = "raised"
                /\ raised' = Exc("ValueError", <<"Invalid task tuple length">>)
                /\ UNCHANGED <<coros, st>>
    /\ UNCHANGED <<tasks, calls, start_time, outcome, taskres, ready, getter, done,
                   results, displayed, stdout, finished, now>>
    /\ UNCHANGED <<timeoutVars, enumVars, extVars>>

\* print("Started ..."), results = [], and asyncio.as_completed(_tasks):
\* every coroutine becomes a task whose first step is scheduled, in the
\* iteration order of a set.
Launch ==
    /\ pc = "build"
    /\ Len(coros) = Len(tasks)
    /\ stdout' = Append(stdout, "Started")
    /\ \E order \in Orders(Indices) :
          ready' = [k \in 1 .. Len(order) |-> Step(order[k])]
    /\ st' = [k \in Indices |-> "scheduled"]
    /\ pc' = "running"
    /\ UNCHANGED <<tasks, raised, coros, calls, start_time, outcome, taskres, getter,
                   done, results, displayed, finished, now>>
    /\ UNCHANGED <<timeoutVars, enumVars, extVars>>

Retries_OnFailure(o) == IF IsRaised(o) THEN 1 ELSE 0

\* How often run_task calls func again after it ended with o: its except
\* branch builds the record and returns.
Retries(o) == 0

Put_BySubmission(q, k) ==
    LET before == SelectSeq(q, LAMBDA j : j < k)
        after == SelectSeq(q, LAMBDA j : j > k)
    IN  before \o <<k>> \o after

\* Queue.put_nowait of as_completed's queue: first finished, first out.
Put(q, k) == Append(q, k)

\* The capability awaited by task k ends with o: run_task ends, the task is
\* done and its done-callback is scheduled.
EndTask(k, o, start, invoked) ==
    /\ calls' = [calls EXCEPT ![k] = invoked + Retries(o)]
    /\ outcome' = [outcome EXCEPT ![k] = o]
    /\ taskres' = [taskres EXCEPT ![k] = RunTask(coros[k + 1], o, start, now)]
    /\ st' = [st EXCEPT ![k] = "finished"]
    /\ finished' = Append(finished, k)
    /\ ready' = Append(Tail(ready), Callback(k))

\* The loop runs the first step of a task: run_task takes start_time and
\* calls func(text, **params), which suspends on I/O or ends at once.
FirstStep ==
    /\ pc # "running"
    /\ ready # << >>
    /\ Head(ready).kind = "step"
    /\ LET k == Head(ready).i
       IN  /\ st[k] = "scheduled"
           /\ start_time' = [start_time EXCEPT ![k] = now]
           /\ \/ /\ calls' = [calls EXCEPT ![k] = @ + 1]
                 /\ st' = [st EXCEPT ![k] = "awaiting"]
                 /\ ready' = Tail(ready)
                 /\ UNCHANGED <<outcome, taskres, finished>>
              \/ \E o \in Outcomes : EndTask(k, o, now, calls[k] + 1)
    /\ UNCHANGED <<tasks, pc, raised, coros, getter, done, results, displayed, stdout, now>>
    /\ UNCHANGED <<timeoutVars, enumVars, extVars>>

\* The I/O a capability waits for completes: its task is scheduled again.
IOComplete(k) ==
    /\ st[k] = "awaiting"
    /\ st' = [st EXCEPT ![k] = "woken"]
    /\ ready' = Append(ready, Step(k))
    /\ UNCHANGED <<tasks, pc, raised, coros, calls, start_time, outcome, taskres, getter,
                   done, results, displayed, stdout, finished, now>>
    /\ UNCHANGED <<timeoutVars, enumVars, extVars>>

\* The loop resumes a task whose I/O completed: the capability returns or
\* raises and run_task ends.
ResumeStep ==
    /\ pc # "running"
    /\ ready # << >>
    /\ Head(ready).kind = "step"
    /\ LET k == Head(ready).i
       IN  /\ st[k] = "woken"
           /\ \E o \in Outcomes : EndTask(k, o, start_time[k], calls[k])
    /\ UNCHANGED <<tasks, pc, raised, coros, start_time, getter, done, results,
                   displayed, stdout, now>>
    /\ UNCHANGED <<timeoutVars, enumVars, extVars>>

\* as_completed's _on_completion: the finished task is put on the queue,
\* which wakes batch_agenerate if it waits in done.get().
OnCompletion ==
    /\ pc # "running"
    /\ ready # << >>
    /\ Head(ready).kind = "cb"
    /\ done' = Put(done, Head(ready).i)
    /\ IF getter
       THEN /\ getter' = FALSE
            /\ ready' = Append(Tail(ready), Wake)
       ELSE /\ ready' = Tail(ready)
            /\ UNCHANGED getter
    /\ UNCHANGED <<tasks, pc, raised, coros, st, calls, start_time, outcome, taskres,
                   results, displayed, stdout, finished, now>>
    /\ UNCHANGED <<timeoutVars, enumVars, extVars>>

\* The loop resumes batch_agenerate after done.get() was woken.
Resume ==
    /\ pc = "waiting"
    /\ ready # << >>
    /\ Head(ready).kind = "wake"
    /\ ready' = Tail(ready)
    /\ pc' = "running"
    /\ UNCHANGED <<tasks, raised, coros, st, calls, start_time, outcome, taskres, getter,
                   done, results, displayed, stdout, finished, now>>
    /\ UNCHANGED <<timeoutVars, enumVars, extVars>>

\* One iteration of `for future in asyncio.as_completed(_tasks)`:
\* `result = await future` takes the next finished task from the queue (or
\* suspends while it is empty) and re-raises what the task raised; the
\* result is displayed and appended.
AppendResult_Insert(rs, r) == <<r>> \o rs

\* `results.append(result)`
AppendResult(rs, r) == Append(rs, r)

AwaitFuture ==
    /\ pc = "running"
    /\ Len(results) < Len(tasks)
    /\ IF done = << >>
       THEN /\ pc' = "waiting"
            /\ getter' = TRUE
            /\ UNCHANGED <<raised, done, results, displayed, stdout>>
       ELSE LET r == taskres[Head(done)]
            IN  /\ done' = Tail(done)
                /\ UNCHANGED getter
                /\ IF r.kind = "raise"
                   THEN /\ pc' = "raised"
                        /\ raised' = r.exc
                        /\ UNCHANGED <<results, displayed, stdout>>
                   ELSE /\ displayed' = Append(displayed, Notice(r.rec, Len(results) + 1))
                        /\ stdout' = IF r.rec.success THEN stdout
                                     ELSE Append(stdout, r.rec.error)
                        /\ results' = AppendResult(results, r.rec)
                        /\ UNCHANGED <<pc, raised>>
    /\ UNCHANGED <<tasks, coros, st, calls, start_time, outcome, taskres, ready,
                   finished, now>>
    /\ UNCHANGED <<timeoutVars, enumVars, extVars>>

Return_OnFirstFailure ==
    /\ pc = "running"
    /\ \/ Len(results) = Len(tasks)
       \/ results # << >> /\ ~results[Len(results)].success
    /\ stdout' = Append(stdout, "Done!")
    /\ pc' = "done"
    /\ UNCHANGED <<tasks, raised, coros, st, calls, start_time, outcome, taskres, ready,
                   getter, done, results, displayed, finished, now>>
    /\ UNCHANGED <<timeoutVars, enumVars, extVars>>

\* The loop over as_completed is exhausted: print("Done!"); return results.
Return ==
    /\ pc = "running"
    /\ Len(results) = Len(tasks)
    /\ stdout' = Append(stdout, "Done!")
    /\ pc' = "done"
    /\ UNCHANGED <<tasks, raised, coros, st, calls, start_time, outcome, taskres, ready,
                   getter, done, results, displayed, finished, now>>
    /\ UNCHANGED <<timeoutVars, enumVars, extVars>>

\* Wall-clock time passes while some run_task has still to read the clock.
Tick ==
    /\ \E k \in Indices : st[k] \in {"scheduled", "awaiting", "woken"}
    /\ now < MaxClock
    /\ now' = now + 1
    /\ UNCHANGED <<tasks, pc, raised, coros, st, calls, start_time, outcome, taskres,
                   ready, getter, done, results, displayed, stdout, finished>>
    /\ UNCHANGED <<timeoutVars, enumVars, extVars>>

Next ==
    \/ BuildTask
    \/ Launch
    \/ FirstStep
    \/ \E k \in Indices : IOComplete(k)
    \/ ResumeStep
    \/ OnCompletion
    \/ Resume
    \/ AwaitFuture
    \/ Return
    \/ Tick

Spec == Init /\ [][Next]_vars

\* The steps of the run itself, the clock standing still.
NextRun ==
    \/ BuildTask
    \/ Launch
    \/ FirstStep
    \/ \E k \in Indices : IOComplete(k)
    \/ ResumeStep
    \/ OnCompletion
    \/ Resume
    \/ AwaitFuture
    \/ Return

\* The event loop runs every ready handle, and every capability that waits
\* for I/O eventually returns or raises.
FairSpec ==
    /\ Init
    /\ [][NextRun]_vars
    /\ WF_vars(BuildTask \/ Launch \/ FirstStep \/ ResumeStep \/ OnCompletion
                 \/ Resume \/ AwaitFuture \/ Return)
    /\ \A k \in 0 .. (MaxTasks - 1) : WF_vars(k \in Indices /\ IOComplete(k))

(***************************************************************************)
(* Properties of batch_agenerate and run_task.                             *)
(***************************************************************************)
WellFormedList == \A p \in 1 .. Len(tasks) : Len(tasks[p]) \in {2, 3}

ResultIndices == { results[a].index : a \in 1 .. Len(results) }

InFlight == { k \in Indices : st[k] \in {"scheduled", "awaiting", "woken"} }

C2_FailureHasNonEmptyError ==
    (pc = "done" /\ Cardinality({ k \in Indices : IsRaised(outcome[k]) }) = 1) =>
        /\ Len(results) = Len(tasks)
        /\ \A a \in 1 .. Len(results) :
              IF IsRaised(outcome[results[a].index])
              THEN ~results[a].success /\ results[a].error # ""
              ELSE results[a].success

\* C3 (as claimed): run_task never propagates: whatever the capability
\* raised, the task ends with a returned record with success = False and
\* error = str(e).
C3_NeverPropagates ==
    \A k \in Indices :
        (st[k] = "finished" /\ IsRaised(outcome[k])) =>
            /\ taskres[k].kind = "return"
            /\ ~taskres[k].rec.success
            /\ taskres[k].rec.error = Str(outcome[k])

\* C3 (amended): an error derived from Exception is never propagated by
\* run_task: it returns a record with success = False whose error is the
\* error's string form (empty for an error without arguments); an error that
\* derives from BaseException only, such as asyncio.CancelledError, is
\* propagated to the caller unchanged.
C3_ExceptionsCaptured ==
    \A k \in Indices :
        (st[k] = "finished" /\ IsRaised(outcome[k])) =>
            IF outcome[k].cls \in {"Exception", "TimeoutException", "ValueError"}
            THEN /\ taskres[k].kind = "return"
                 /\ ~taskres[k].rec.success
                 /\ taskres[k].rec.error =
                        (IF outcome[k].args = << >> THEN "" ELSE outcome[k].args[1])
            ELSE /\ taskres[k].kind = "raise"
                 /\ taskres[k].exc = outcome[k]

C3_Witness ==
    \E j, k \in Indices :
        /\ st[j] = "finished" /\ IsRaised(outcome[j]) /\ outcome[j].cls = "TimeoutException"
        /\ st[k] = "finished" /\ IsRaised(outcome[k]) /\ outcome[k].cls = "CancelledError"

\* C4: a task list with an entry whose length is neither 2 nor 3 makes
\* batch_agenerate raise ValueError while it still builds the coroutines,
\* wherever the entry sits: no capability is ever invoked, nothing is
\* scheduled, recorded, displayed or printed.
C4_MalformedFailsFast ==
    ~WellFormedList =>
        /\ pc \in {"build", "raised"}
        /\ pc = "raised" => raised.cls = "ValueError"
        /\ \A p \in 1 .. Len(coros) : Len(tasks[p]) \in {2, 3}
        /\ \A k \in Indices : calls[k] = 0 /\ st[k] \in {"none", "created"}
        /\ ready = << >>
        /\ results = << >>
        /\ displayed = << >>
        /\ stdout = << >>

C4_Witness ==
    /\ pc = "raised"
    /\ raised.cls = "ValueError"
    /\ Len(coros) >= 1

\* C5: the records are appended, and their notifications displayed, in the
\* order in which the tasks' run_task executions ended, whatever their
\* submission indices.
C5_CompletionOrder ==
    /\ Len(displayed) = Len(results)
    /\ Len(results) <= Len(finished)
    /\ \A a \in 1 .. Len(results) :
          /\ results[a].index = finished[a]
          /\ displayed[a].index = finished[a]
          /\ displayed[a].n = a

C5_Witness ==
    /\ pc = "done"
    /\ Len(results) >= 2
    /\ results[1].index # 0
    /\ results[Len(results)].index = 0

\* C6: a capability is invoked at most once, a task ends only with the
\* outcome of its own capability after exactly one invocation, no task is
\* cancelled or skipped because another failed, and when batch_agenerate
\* returns every capability has been invoked exactly once.
C6_InvokedOnce ==
    \A k \in Indices :
        /\ calls[k] <= 1
        /\ st[k] \in {"none", "created", "scheduled", "awaiting", "woken", "finished"}
        /\ st[k] \in {"awaiting", "woken", "finished"} <=> calls[k] = 1
        /\ st[k] = "finished" <=> outcome[k] # Unset
        /\ pc = "done" => calls[k] = 1 /\ st[k] = "finished"
        /\ (WellFormedList /\ pc \in {"running", "waiting"}) => st[k] # "none"
        /\ st[k] \in {"scheduled", "woken"} => Step(k) \in Range(ready)

C6_Witness ==
    /\ pc = "done"
    /\ \E j, k \in Indices :
          /\ j # k
          /\ finished[1] = j
          /\ IsRaised(outcome[j])
          /\ ~IsRaised(outcome[k])
          /\ calls[j] = 1
          /\ calls[k] = 1

\* C7 (as claimed): on a well-formed list batch_agenerate ends only by
\* returning, so that it eventually returns once every capability returned
\* or raised, and whenever it has ended no task is still in flight.
C7_EndsByReturning ==
    (WellFormedList /\ pc \notin {"build", "running", "waiting"}) =>
        /\ pc = "done"
        /\ \A k \in Indices : st[k] = "finished"

\* C7 (amended): batch_agenerate returns only when every task has ended, a
\* failure with an error derived from Exception never ends it early, and on
\* a well-formed list it eventually either returns or, when a capability
\* raised an error that derives from BaseException only, ends by raising
\* that error (possibly with other tasks still in flight).
C7_ReturnsOrReraises ==
    /\ [](pc = "done" => \A k \in Indices : st[k] = "finished")
    /\ []((pc = "raised" /\ WellFormedList) =>
            /\ ~IsSubclass(raised.cls, "Exception")
            /\ \E k \in Indices : st[k] = "finished" /\ outcome[k] = raised)
    /\ WellFormedList => <>(pc = "done" \/ pc = "raised")

C7_Witness ==
    /\ pc = "done"
    /\ stdout[Len(stdout)] = "Done!"
    /\ Len(tasks) >= 2
    /\ InFlight = {}
    /\ ~results[1].success
    /\ results[Len(results)].success

(***************************************************************************)
(* timeout(seconds): calls of wrapped functions. A wrapped function may    *)
(* itself call a wrapped function, so the calls in progress form a stack;  *)
(* the SIGALRM timer and its handler are one per process. The outermost    *)
(* call is the capability awaited by a run_task.                           *)
(***************************************************************************)
Frame(id, seconds) == [id |-> id, seconds |-> seconds, age |-> 0]

\* _handle_timeout of the wrapper that installed h.
HandleTimeout(h) ==
    Exc("TimeoutException", << <<"Function", h.id, "timed out after", h.seconds>> >>)

\* run_task around the outermost wrapped call, which ended with o after
\* age seconds.
Capture(o, age) ==
    RunTask([index |-> 0, func |-> 1, text |-> "hello", params |-> EmptyParams], o, 0, age)

TimeoutInit ==
    /\ tasks = << >>
    /\ pc = "idle"
    /\ raised = Unset
    /\ coros = << >>
    /\ st = << >>
    /\ calls = << >>
    /\ start_time = << >>
    /\ outcome = << >>
    /\ taskres = << >>
    /\ ready = << >>
    /\ getter = FALSE
    /\ done = << >>
    /\ results = << >>
    /\ displayed = << >>
    /\ stdout = << >>
    /\ finished = << >>
    /\ now = 0
    /\ TimeoutIdle
    /\ EnumIdle
    /\ ExtIdle

\* wrapper(): signal.signal(SIGALRM, _handle_timeout); signal.alarm(seconds);
\* then func(...) starts. The call is the outermost one or is made by the
\* function of the innermost call in progress.
Call(seconds) ==
    /\ propagating = Unset
    /\ captured = Unset
    /\ Len(stack) < MaxDepth
    /\ Len(stack) + Len(ended) < MaxCalls
    /\ LET id == Len(stack) + Len(ended) + 1
       IN  /\ handler' = [id |-> id, seconds |-> seconds]
           /\ stack' = Append(stack, Frame(id, seconds))
    /\ alarm' = seconds
    /\ UNCHANGED <<propagating, ended, captured>>
    /\ UNCHANGED <<batchVars, enumVars, extVars>>

\* The innermost func returns: finally signal.alarm(0).
ReturnCall ==
    /\ propagating = Unset
    /\ stack # << >>
    /\ LET f == stack[Len(stack)]
       IN  /\ ended' = Append(ended, [id |-> f.id, seconds |-> f.seconds, age |-> f.age,
                                      how |-> "returned", by |-> 0])
           /\ captured' = IF Len(stack) = 1
                          THEN Capture([payload |-> "audio"], f.age)
                          ELSE captured
    /\ alarm' = 0
    /\ stack' = SubSeq(stack, 1, Len(stack) - 1)
    /\ UNCHANGED <<handler, propagating>>
    /\ UNCHANGED <<batchVars, enumVars, extVars>>

\* One second passes while the innermost func runs; when the timer expires
\* the installed handler raises in the code that is running.
Second ==
    /\ propagating = Unset
    /\ stack # << >>
    /\ \A k \in 1 .. Len(stack) : stack[k].age < MaxAge
    /\ stack' = [k \in 1 .. Len(stack) |-> [stack[k] EXCEPT !.age = @ + 1]]
    /\ IF alarm = 1
       THEN /\ alarm' = 0
            /\ propagating' = [exc |-> HandleTimeout(handler), by |-> handler.id, left |-> 0]
       ELSE /\ alarm' = IF alarm = 0 THEN 0 ELSE alarm - 1
            /\ UNCHANGED propagating
    /\ UNCHANGED <<handler, ended, captured>>
    /\ UNCHANGED <<batchVars, enumVars, extVars>>

\* The exception leaves the innermost func: finally signal.alarm(0), and
\* the wrapper's caller gets the exception; the outermost caller is
\* run_task.
Unwind ==
    /\ propagating # Unset
    /\ stack # << >>
    /\ LET f == stack[Len(stack)]
       IN  /\ ended' = Append(ended, [id |-> f.id, seconds |-> f.seconds, age |-> f.age,
                                      how |-> propagating.exc.cls, by |-> propagating.by])
           /\ IF Len(stack) = 1
              THEN /\ captured' = Capture(propagating.exc, f.age)
                   /\ propagating' = Unset
              ELSE /\ propagating' = [propagating EXCEPT !.left = @ + 1]
                   /\ UNCHANGED captured
    /\ alarm' = 0
    /\ stack' = SubSeq(stack, 1, Len(stack) - 1)
    /\ UNCHANGED handler
    /\ UNCHANGED <<batchVars, enumVars, extVars>>

\* The function that made the aborted call handles the exception and goes on.
Catch ==
    /\ propagating # Unset
    /\ propagating.left > 0
    /\ stack # << >>
    /\ propagating' = Unset
    /\ UNCHANGED <<stack, alarm, handler, ended, captured>>
    /\ UNCHANGED <<batchVars, enumVars, extVars>>

NextTimeout ==
    \/ \E seconds \in 1 .. MaxSeconds : Call(seconds)
    \/ ReturnCall
    \/ Second
    \/ Unwind
    \/ Catch

SpecTimeout == TimeoutInit /\ [][NextTimeout]_vars

\* C8 (as claimed): a wrapped call that still runs N seconds after it
\* started is aborted with a TimeoutException at that moment, nested or not;
\* run_task captures that error as success = False; and a call is aborted
\* only by its own timeout.
C8_EveryCallTimesOut ==
    /\ \A k \in 1 .. Len(stack) :
          /\ stack[k].age <= stack[k].seconds
          /\ stack[k].age = stack[k].seconds => propagating # Unset
    /\ \A k \in 1 .. Len(ended) :
          /\ ended[k].how = "returned" => ended[k].age < ended[k].seconds
          /\ ended[k].how = "TimeoutException" => ended[k].by = ended[k].id
    /\ (captured # Unset /\ ended[Len(ended)].how = "TimeoutException") =>
          captured.kind = "return" /\ ~captured.rec.success

(***************************************************************************)
(* convert_to_enum. A string is a sequence of characters. An enum class is *)
(* its __name__ and its members in definition order, each a name and a     *)
(* value; the classes are str-mixin enums of the adapters.                 *)
(***************************************************************************)
\* hume.Format
Format ==
    [name |-> <<"F", "o", "r", "m", "a", "t">>,
     members |-> <<
        [name |-> <<"W", "A", "V">>, value |-> <<"w", "a", "v">>],
        [name |-> <<"P", "C", "M">>, value |-> <<"p", "c", "m">>] >>]

\* openai.Model
Model ==
    [name |-> <<"M", "o", "d", "e", "l">>,
     members |-> <<
        [name |-> <<"T", "T", "S", "_", "1">>, value |-> <<"t", "t", "s", "-", "1">>],
        [name |-> <<"T", "T", "S", "_", "1", "_", "H", "D">>, value |-> <<"t", "t", "s", "-", "1", "-", "h", "d">>] >>]

\* openai.Voice
Voice ==
    [name |-> <<"V", "o", "i", "c", "e">>,
     members |-> <<
        [name |-> <<"A", "L", "L", "O", "Y">>, value |-> <<"a", "l", "l", "o", "y">>],
        [name |-> <<"E", "C", "H", "O">>, value |-> <<"e", "c", "h", "o">>],
        [name |-> <<"F", "A", "B", "L", "E">>, value |-> <<"f", "a", "b", "l", "e">>],
        [name |-> <<"O", "N", "Y", "X">>, value |-> <<"o", "n", "y", "x">>],
        [name |-> <<"N", "O", "V", "A">>, value |-> <<"n", "o", "v", "a">>],
        [name |-> <<"S", "H", "I", "M", "M", "E", "R">>, value |-> <<"s", "h", "i", "m", "m", "e", "r">>] >>]

EnumClasses == {Format, Model, Voice}

\* The values a caller may pass: a member of some enum class, a string, or
\* None.
Member(E, k) == [kind |-> "member", cls |-> E.name, name |-> E.members[k].name,
                 text |-> E.members[k].value]
StrValue(chars) == [kind |-> "str", cls |-> << >>, name |-> << >>, text |-> chars]
NoneValue == [kind |-> "none", cls |-> << >>, name |-> << >>, text |-> << >>]

Members(E) == { Member(E, k) : k \in 1 .. Len(E.members) }

InvalidStrings ==
    { <<"m", "p", "3">>,
      <<"W", "A", "V">>,
      <<"t", "t", "s">>,
      << >> }

Values ==
    UNION { Members(E) : E \in EnumClasses }
      \cup { StrValue(m.text) : m \in UNION { Members(E) : E \in EnumClasses } }
      \cup { StrValue(x) : x \in InvalidStrings }
      \cup { NoneValue }

\* isinstance(value, enum_class)
IsInstance(v, E) == v.kind = "member" /\ v.cls = E.name

\* v == member.value, as the lookup by value compares: a string, or a
\* member of a str-mixin enum, equals a value with the same characters.
EqualsValue(v, chars) == v.kind \in {"str", "member"} /\ v.text = chars

\* f"{value}" and str(v.value)
Format_(v) ==
    IF v.kind = "none" THEN <<"N", "o", "n", "e">>
    ELSE IF v.kind = "member" THEN v.cls \o <<".">> \o v.name
    ELSE v.text

RECURSIVE Join(_, _)
\* sep.join(parts)
Join(parts, sep) ==
    IF parts = << >> THEN << >>
    ELSE IF Len(parts) = 1 THEN parts[1]
    ELSE parts[1] \o sep \o Join(Tail(parts), sep)

Lookup_ByName(E, v) ==
    LET hits == { k \in 1 .. Len(E.members) : EqualsValue(v, E.members[k].name) }
    IN  IF hits = {} THEN [kind |-> "raise", exc |-> Exc("ValueError", << >>)]
        ELSE [kind |-> "return",
              member |-> Member(E, CHOOSE k \in hits : \A j \in hits : k <= j)]

\* enum_class(value): the first member whose value equals value, else
\* ValueError.
Lookup(E, v) ==
    LET hits == { k \in 1 .. Len(E.members) : EqualsValue(v, E.members[k].value) }
    IN  IF hits = {} THEN [kind |-> "raise", exc |-> Exc("ValueError", << >>)]
        ELSE [kind |-> "return",
              member |-> Member(E, CHOOSE k \in hits : \A j \in hits : k <= j)]

ValidValues_Names(E) == [k \in 1 .. Len(E.members) |-> E.members[k].name]

\* [str(v.value) for v in enum_class]
ValidValues(E) == [k \in 1 .. Len(E.members) |-> E.members[k].value]

Message(E, v) ==
    <<"I", "n", "v", "a", "l", "i", "d", " ", "v", "a", "l", "u", "e", ":", " ", "'">> \o Format_(v)
      \o <<"'", " ", "f", "o", "r", " ">> \o E.name
      \o <<".", " ", "V", "a", "l", "i", "d", " ", "o", "p", "t", "i", "o", "n", "s", " ", "a", "r", "e", ":", " ">>
      \o Join(ValidValues(E), <<",", " ">>)

ConvertToEnum(E, v) ==
    IF IsInstance(v, E) THEN [kind |-> "return", member |-> v]
    ELSE LET r == Lookup(E, v)
         IN  IF r.kind = "return" THEN r
             ELSE IF IsSubclass(r.exc.cls, "ValueError")
             THEN [kind |-> "raise", exc |-> Exc("ValueError", <<Message(E, v)>>)]
             ELSE r

Contains(text, part) ==
    \E i \in 1 .. (Len(text) - Len(part) + 1) : SubSeq(text, i, i + Len(part) - 1) = part

EnumInit ==
    /\ tasks = << >>
    /\ pc = "idle"
    /\ raised = Unset
    /\ coros = << >>
    /\ st = << >>
    /\ calls = << >>
    /\ start_time = << >>
    /\ outcome = << >>
    /\ taskres = << >>
    /\ ready = << >>
    /\ getter = FALSE
    /\ done = << >>
    /\ results = << >>
    /\ displayed = << >>
    /\ stdout = << >>
    /\ finished = << >>
    /\ now = 0
    /\ TimeoutIdle
    /\ ExtIdle
    /\ enum_class \in EnumClasses
    /\ value \in Values
    /\ ret = Unset
    /\ ncalls = 0

\* convert_to_enum(enum_class, value)
Convert ==
    /\ ncalls = 0
    /\ ret' = ConvertToEnum(enum_class, value)
    /\ ncalls' = ncalls + 1
    /\ UNCHANGED <<enum_class, value>>
    /\ UNCHANGED <<batchVars, timeoutVars, extVars>>

\* convert_to_enum applied to the member it returned.
ConvertResult ==
    /\ ncalls >= 1
    /\ ncalls < MaxConverts
    /\ ret.kind = "return"
    /\ value' = ret.member
    /\ ret' = ConvertToEnum(enum_class, ret.member)
    /\ ncalls' = ncalls + 1
    /\ UNCHANGED enum_class
    /\ UNCHANGED <<batchVars, timeoutVars, extVars>>

\* convert_to_enum applied to the .value of the member it returned.
ConvertResultValue ==
    /\ ncalls >= 1
    /\ ncalls < MaxConverts
    /\ ret.kind = "return"
    /\ value' = StrValue(ret.member.text)
    /\ ret' = ConvertToEnum(enum_class, StrValue(ret.member.text))
    /\ ncalls' = ncalls + 1
    /\ UNCHANGED enum_class
    /\ UNCHANGED <<batchVars, timeoutVars, extVars>>

NextEnum ==
    \/ Convert
    \/ ConvertResult
    \/ ConvertResultValue

SpecEnum == EnumInit /\ [][NextEnum]_vars

CanonicalOf(E, v) == { m \in Members(E) : v.kind \in {"str", "member"} /\ v.text = m.text }

\* C9: convert_to_enum returns a member of enum_class unchanged and resolves
\* the canonical value of a member to that member, so converting its own
\* result, or the .value of its result, gives the same member again.
C9_MemberAndValueResolve ==
    ncalls >= 1 =>
        /\ value \in Members(enum_class) =>
              ret = [kind |-> "return", member |-> value]
        /\ \A m \in Members(enum_class) :
              value = StrValue(m.text) => ret = [kind |-> "return", member |-> m]
        /\ ret.kind = "return" =>
              /\ ret.member \in Members(enum_class)
              /\ ConvertToEnum(enum_class, ret.member) = ret
              /\ ConvertToEnum(enum_class, StrValue(ret.member.text)) = ret

C9_Witness ==
    /\ ncalls = 3
    /\ value.kind = "str"
    /\ ret.kind = "return"
    /\ ret.member.text = value.text
    /\ Len(enum_class.members) >= 2
    /\ ret.member # Member(enum_class, 1)

\* C10: for a value that is neither a member of enum_class nor equal to the
\* value of one, convert_to_enum raises ValueError, and the message contains
\* the value of every member of enum_class; it returns a member only for a
\* member or the value of one.
C10_InvalidValueListsOptions ==
    ncalls >= 1 =>
        IF value \notin Members(enum_class) /\ CanonicalOf(enum_class, value) = {}
        THEN /\ ret.kind = "raise"
             /\ ret.exc.cls = "ValueError"
             /\ \A m \in Members(enum_class) : Contains(Str(ret.exc), m.text)
        ELSE ret.kind = "return"

C10_Witness ==
    /\ ncalls = 1
    /\ ret.kind = "raise"
    /\ value.kind = "member"
    /\ Len(enum_class.members) > 2

\* C12: the record with index i carries the capability, the text and the
\* parameters of the i-th entry of the task list (0-based), the empty mapping
\* when the entry has no parameters; the indices are assigned in list order
\* before any task starts, whatever the order of completion.
C12_RecordCarriesItsTask ==
    /\ \A k \in 1 .. Len(coros) : coros[k].index = k - 1
    /\ (\E k \in Indices : st[k] \notin {"none", "created"}) => Len(coros) = Len(tasks)
    /\ \A a \in 1 .. Len(results) :
          LET r == results[a]
          IN  /\ r.index \in Indices
              /\ r.func = tasks[r.index + 1][1]
              /\ r.text = tasks[r.index + 1][2]
              /\ r.params = IF Len(tasks[r.index + 1]) = 2 THEN EmptyParams
                            ELSE tasks[r.index + 1][3]

\* a batch returned with its second task first: the first record carries the
\* parameters of entry 1, the second the empty mapping of entry 0
C12_Witness ==
    /\ pc = "done"
    /\ Len(results) = 2
    /\ results[1].index = 1
    /\ results[1].params # EmptyParams
    /\ results[2].index = 0
    /\ results[2].params = EmptyParams
    /\ Len(tasks[1]) = 2

C18_ResultsAppendOnly ==
    [][ /\ \/ results' = results
           \/ /\ Len(results') = Len(results) + 1
              /\ SubSeq(results', 1, Len(results)) = results
              /\ LET r == results'[Len(results')]
                 IN  /\ st[r.index] = "finished"
                     /\ done # << >> /\ Head(done) = r.index
                     /\ r = taskres[r.index].rec
                     /\ r.index \notin ResultIndices
        /\ tasks' = tasks
        /\ \A k \in 1 .. Len(coros) :
              /\ Len(coros') >= k
              /\ coros'[k].params = ParamsOf(tasks[k])
      ]_vars

\* a record was appended to a result list that already held one
C18_Witness ==
    /\ Len(results) = 2
    /\ results[1].index # results[2].index
    /\ \E p \in 1 .. Len(tasks) : Len(tasks[p]) = 3 /\ tasks[p][3] # EmptyParams

(***************************************************************************)
(* The adapters' entry points: openai.generate, cartesia.generate,         *)
(* agenerate and agenerate_with_timestamps, hume.agenerate, stream and     *)
(* agenerate_with_continuity.  A call is the sequence of the operations    *)
(* its body performs on the way to the vendor: the test for an empty list  *)
(* of texts, convert_to_enum on a closed-set option, the construction of   *)
(* the vendor client from the settings, the vendor network call.           *)
(***************************************************************************)

\* cartesia.Model
CartesiaModel ==
    [name |-> <<"M", "o", "d", "e", "l">>,
     members |-> <<
        [name |-> <<"S", "O", "N", "I", "C", "_", "2">>,
         value |-> <<"s", "o", "n", "i", "c", "-", "2">>],
        [name |-> <<"S", "O", "N", "I", "C", "_", "T", "U", "R", "B", "O">>,
         value |-> <<"s", "o", "n", "i", "c", "-", "t", "u", "r", "b", "o">>],
        [name |-> <<"S", "O", "N", "I", "C">>,
         value |-> <<"s", "o", "n", "i", "c">>],
        [name |-> <<"S", "O", "N", "I", "C", "_", "2", "_", "2", "0", "2", "5", "_", "0", "4", "_", "1", "6">>,
         value |-> <<"s", "o", "n", "i", "c", "-", "2", "-", "2", "0", "2", "5", "-", "0", "4", "-", "1", "6">>],
        [name |-> <<"S", "O", "N", "I", "C", "_", "2", "_", "2", "0", "2", "5", "_", "0", "3", "_", "0", "7">>,
         value |-> <<"s", "o", "n", "i", "c", "-", "2", "-", "2", "0", "2", "5", "-", "0", "3", "-", "0", "7">>],
        [name |-> <<"S", "O", "N", "I", "C", "_", "T", "U", "R", "B", "O", "_", "2", "0", "2", "5", "_", "0", "3", "_", "0", "7">>,
         value |-> <<"s", "o", "n", "i", "c", "-", "t", "u", "r", "b", "o", "-", "2", "0", "2", "5", "-", "0", "3", "-", "0", "7">>],
        [name |-> <<"S", "O", "N", "I", "C", "_", "2", "0", "2", "4", "_", "1", "2", "_", "1", "2">>,
         value |-> <<"s", "o", "n", "i", "c", "-", "2", "0", "2", "4", "-", "1", "2", "-", "1", "2">>],
        [name |-> <<"S", "O", "N", "I", "C", "_", "2", "0", "2", "4", "_", "1", "0", "_", "1", "9">>,
         value |-> <<"s", "o", "n", "i", "c", "-", "2", "0", "2", "4", "-", "1", "0", "-", "1", "9">>] >>]

\* cartesia.Language
Language ==
    [name |-> <<"L", "a", "n", "g", "u", "a", "g", "e">>,
     members |-> <<
        [name |-> <<"E", "N", "G", "L", "I", "S", "H">>,
         value |-> <<"e", "n">>],
        [name |-> <<"F", "R", "E", "N", "C", "H">>,
         value |-> <<"f", "r">>],
        [name |-> <<"G", "E", "R", "M", "A", "N">>,
         value |-> <<"d", "e">>],
        [name |-> <<"S", "P", "A", "N", "I", "S", "H">>,
         value |-> <<"e", "s">>],
        [name |-> <<"P", "O", "R", "T", "U", "G", "U", "E", "S", "E">>,
         value |-> <<"p", "t">>],
        [name |-> <<"C", "H", "I", "N", "E", "S", "E">>,
         value |-> <<"z", "h">>],
        [name |-> <<"J", "A", "P", "A", "N", "E", "S", "E">>,
         value |-> <<"j", "a">>],
        [name |-> <<"H", "I", "N", "D", "I">>,
         value |-> <<"h", "i">>],
        [name |-> <<"I", "T", "A", "L", "I", "A", "N">>,
         value |-> <<"i", "t">>],
        [name |-> <<"K", "O", "R", "E", "A", "N">>,
         value |-> <<"k", "o">>],
        [name |-> <<"D", "U", "T", "C", "H">>,
         value |-> <<"n", "l">>],
        [name |-> <<"P", "O", "L", "I", "S", "H">>,
         value |-> <<"p", "l">>],
        [name |-> <<"R", "U", "S", "S", "I", "A", "N">>,
         value |-> <<"r", "u">>],
        [name |-> <<"S", "W", "E", "D", "I", "S", "H">>,
         value |-> <<"s", "v">>],
        [name |-> <<"T", "U", "R", "K", "I", "S", "H">>,
         value |-> <<"t", "r">>] >>]

MaxTexts == 2

EntryPoints == {"openai.generate", "cartesia.generate", "cartesia.agenerate",
                "cartesia.agenerate_with_timestamps", "hume.agenerate",
                "hume.stream", "hume.agenerate_with_continuity"}

\* the entry points whose first parameter is a list of texts
TakesTexts(e) == e \in {"hume.stream", "hume.agenerate_with_continuity"}

Vendor(e) ==
    IF e = "openai.generate" THEN "openai"
    ELSE IF e \in {"hume.agenerate", "hume.stream", "hume.agenerate_with_continuity"}
    THEN "hume"
    ELSE "cartesia"

\* the closed sets of an entry point's options, in parameter order
OptionClasses(e) ==
    IF Vendor(e) = "openai" THEN <<Voice, Model>>
    ELSE IF Vendor(e) = "cartesia" THEN <<CartesiaModel, Language>>
    ELSE <<Format>>

\* what a caller passes for an option of closed set E: the default member,
\* the value of a member as a string, or a string outside the set
OptionValues(E) ==
    { Member(E, 1), StrValue(E.members[Len(E.members)].value),
      StrValue(<<"m", "p", "3">>) }

OpTexts == [op |-> "texts", arg |-> 0]
OpConvert(k) == [op |-> "convert", arg |-> k]
OpClient == [op |-> "client", arg |-> 0]
OpNetwork == [op |-> "network", arg |-> 0]

\* hume.agenerate: the format is converted, then the client is built, then
\* the request is sent
AgenerateBody == <<OpConvert(1), OpClient, OpNetwork>>

\* hume.agenerate_with_continuity, texts i .. n of n: agenerate for the text
\* and, unless it is the last, a second request for the generation id
RECURSIVE ContinuityBody(_, _)
ContinuityBody(i, n) ==
    IF i > n THEN << >>
    ELSE AgenerateBody
         \o (IF i < n THEN <<OpClient, OpConvert(1), OpNetwork>> ELSE << >>)
         \o ContinuityBody(i + 1, n)

\* the operations of entry point e called with n texts, in program order
Body(e, n) ==
    IF e = "openai.generate" THEN <<OpConvert(1), OpConvert(2), OpClient, OpNetwork>>
    ELSE IF Vendor(e) = "cartesia" THEN <<OpClient, OpConvert(1), OpConvert(2), OpNetwork>>
    ELSE IF e = "hume.agenerate" THEN AgenerateBody
    ELSE IF e = "hume.stream" THEN <<OpTexts, OpConvert(1), OpClient, OpNetwork>>
    ELSE <<OpTexts>> \o ContinuityBody(1, n)

\* get_openai_client / get_client / get_async_client: the vendor's section
\* of the settings is read and asserted to be there.  Settings declares the
\* openai section only; reading a section it does not declare is an
\* AttributeError.
GetClient(vendor, present) ==
    IF present THEN [kind |-> "return"]
    ELSE IF vendor = "openai"
    THEN [kind |-> "raise",
          exc |-> Exc("AssertionError", <<"OpenAI settings are not configured">>)]
    ELSE [kind |-> "raise", exc |-> Exc("AttributeError", <<"no such section">>)]

\* no batch, no timed call and no conversion is under way
CoreIdle ==
    /\ tasks = << >>
    /\ pc = "idle"
    /\ raised = Unset
    /\ coros = << >>
    /\ st = << >>
    /\ calls = << >>
    /\ start_time = << >>
    /\ outcome = << >>
    /\ taskres = << >>
    /\ ready = << >>
    /\ getter = FALSE
    /\ done = << >>
    /\ results = << >>
    /\ displayed = << >>
    /\ stdout = << >>
    /\ finished = << >>
    /\ now = 0
    /\ TimeoutIdle
    /\ EnumIdle

AdapterInit ==
    /\ CoreIdle
    /\ FacadeIdle /\ ClientIdle /\ WavIdle
    /\ entry \in EntryPoints
    /\ options \in { o \in [1 .. Len(OptionClasses(entry)) ->
                               UNION { OptionValues(OptionClasses(entry)[k])
                                       : k \in 1 .. Len(OptionClasses(entry)) }]
                     : \A k \in 1 .. Len(o) :
                           o[k] \in OptionValues(OptionClasses(entry)[k]) }
    /\ texts \in IF TakesTexts(entry) THEN 0 .. MaxTexts ELSE {1}
    /\ configured \in BOOLEAN
    /\ apc = 1
    /\ netcalls = 0
    /\ aresult = Unset

Running == aresult = Unset /\ entry # None

\* the operation the call is about to perform
Op == Body(entry, texts)[apc]

AtOp(name) == Running /\ apc <= Len(Body(entry, texts)) /\ Op.op = name

AdapterRest == UNCHANGED <<batchVars, timeoutVars, enumVars, facadeVars, clientVars,
                           wavVars, entry, options, texts, configured>>

\* `if not texts: return`
EmptyTexts ==
    /\ AtOp("texts")
    /\ IF texts = 0
       THEN aresult' = [kind |-> "return"] /\ apc' = apc
       ELSE aresult' = aresult /\ apc' = apc + 1
    /\ UNCHANGED netcalls
    /\ AdapterRest

\* `x = convert_to_enum(X, x)`
Validate ==
    /\ AtOp("convert")
    /\ LET r == ConvertToEnum(OptionClasses(entry)[Op.arg], options[Op.arg])
       IN  IF r.kind = "raise"
           THEN aresult' = r /\ apc' = apc
           ELSE aresult' = aresult /\ apc' = apc + 1
    /\ UNCHANGED netcalls
    /\ AdapterRest

\* `client = get_client()`
BuildClient ==
    /\ AtOp("client")
    /\ LET r == GetClient(Vendor(entry), configured)
       IN  IF r.kind = "raise"
           THEN aresult' = r /\ apc' = apc
           ELSE aresult' = aresult /\ apc' = apc + 1
    /\ UNCHANGED netcalls
    /\ AdapterRest

\* the request to the vendor: it is sent, and answered or refused
VendorCall ==
    /\ AtOp("network")
    /\ netcalls' = netcalls + 1
    /\ \/ aresult' = aresult /\ apc' = apc + 1
       \/ aresult' = [kind |-> "raise", exc |-> Exc("Exception", <<"vendor error">>)]
          /\ apc' = apc
    /\ AdapterRest

\* the end of the body: the audio is returned
ReturnAudio ==
    /\ Running
    /\ apc = Len(Body(entry, texts)) + 1
    /\ aresult' = [kind |-> "return"]
    /\ UNCHANGED <<apc, netcalls>>
    /\ AdapterRest

NextAdapter ==
    \/ EmptyTexts
    \/ Validate
    \/ BuildClient
    \/ VendorCall
    \/ ReturnAudio

SpecAdapter == AdapterInit /\ [][NextAdapter]_vars

\* some option of the call is outside its closed set
HasInvalidOption ==
    \E k \in 1 .. Len(options) :
        ConvertToEnum(OptionClasses(entry)[k], options[k]).kind = "raise"

AdapterEnded == "kind" \in DOMAIN aresult

\* C11: in every adapter entry point, an option outside its closed set is
\* always reported as an invalid-value error (ValueError), and no vendor
\* network call is made before that, for every input, an empty list of texts
\* included.
C11_InvalidOptionReported ==
    (entry # None /\ HasInvalidOption) =>
        /\ netcalls = 0
        /\ AdapterEnded =>
              /\ aresult.kind = "raise"
              /\ aresult.exc.cls = "ValueError"


(***************************************************************************)
(* The synchronous facades of hume: generate, generate_with_continuity and *)
(* save_voice.  Each runs its asynchronous operation on an event loop:     *)
(*     try:                                                                *)
(*         loop = asyncio.get_event_loop()                                 *)
(*         if loop.is_running():                                           *)
(*             nest_asyncio.apply()                                        *)
(*             return loop.run_until_complete(op(...))                     *)
(*         else:                                                           *)
(*             return loop.run_until_complete(op(...))                     *)
(*     except RuntimeError:                                                *)
(*         return asyncio.run(op(...))                                     *)
(* The event loop of the calling thread is                                 *)
(*   "no_loop"  none: get_event_loop() raises RuntimeError (a thread other *)
(*              than the main one, or the main one after asyncio.run)      *)
(*   "idle"     a loop that is not running (get_event_loop() makes one in  *)
(*              a main thread that has none yet)                           *)
(*   "running"  a loop that is running the caller (a notebook)             *)
(*   "closed"   a loop that was closed                                     *)
(***************************************************************************)

Facades == {"generate", "generate_with_continuity", "save_voice"}

Envs == {"no_loop", "idle", "running", "closed"}

RuntimeError(msg) == Exc("RuntimeError", <<msg>>)

\* what the asynchronous operation can raise before it sends its request:
\* ValueError (convert_to_enum, or asave_voice for a voice without id) and
\* an error of the runtime
EarlyFailures == { Exc("ValueError", <<"invalid value">>), RuntimeError("runtime error") }

\* what it can raise once the request is sent
LateFailures == { Exc("Exception", <<"vendor error">>), RuntimeError("runtime error") }

FacadeInit ==
    /\ CoreIdle
    /\ AdapterIdle /\ ClientIdle /\ WavIdle
    /\ facade \in Facades
    /\ env \in Envs
    /\ fpc = "try"
    /\ attempt = 1
    /\ patched = FALSE
    /\ driven = {}
    /\ opruns = 0
    /\ requests = 0
    /\ failures = << >>
    /\ fresult = Unset

FacadeRest == UNCHANGED <<batchVars, timeoutVars, enumVars, adapterVars, clientVars,
                          wavVars, facade, env>>

\* `loop = asyncio.get_event_loop()`
GetEventLoop ==
    /\ fpc = "try"
    /\ IF env = "no_loop"
       THEN fpc' = "except" /\ attempt' = 2
       ELSE fpc' = "is_running" /\ attempt' = attempt
    /\ UNCHANGED <<patched, driven, opruns, requests, failures, fresult>>
    /\ FacadeRest

\* `if loop.is_running(): import nest_asyncio; nest_asyncio.apply()`
IsRunning ==
    /\ fpc = "is_running"
    /\ patched' = (env = "running")
    /\ fpc' = "run"
    /\ UNCHANGED <<attempt, driven, opruns, requests, failures, fresult>>
    /\ FacadeRest

\* `loop.run_until_complete(op(...))`: a closed loop refuses with a
\* RuntimeError, any other loop is driven and starts the operation
RunUntilComplete ==
    /\ fpc = "run"
    /\ IF env = "closed"
       THEN /\ fpc' = "except"
            /\ attempt' = 2
            /\ UNCHANGED <<driven, opruns>>
       ELSE /\ fpc' = "op"
            /\ driven' = driven \cup {"current"}
            /\ opruns' = opruns + 1
            /\ UNCHANGED attempt
    /\ UNCHANGED <<patched, requests, failures, fresult>>
    /\ FacadeRest

\* `except RuntimeError: return asyncio.run(op(...))`: asyncio.run makes a
\* loop of its own and drives it; it refuses in a running loop, unless
\* nest_asyncio has replaced it by a run on the current loop
AsyncioRun ==
    /\ fpc = "except"
    /\ IF env = "running" /\ ~patched
       THEN /\ fresult' = [kind |-> "raise", exc |-> RuntimeError("asyncio.run() cannot be called from a running event loop")]
            /\ fpc' = "ended"
            /\ UNCHANGED <<driven, opruns>>
       ELSE /\ fpc' = "op"
            /\ driven' = driven \cup {IF patched THEN "current" ELSE "new"}
            /\ opruns' = opruns + 1
            /\ UNCHANGED fresult
    /\ UNCHANGED <<attempt, patched, requests, failures>>
    /\ FacadeRest

\* the except clause of the facade: it encloses the whole try body, the
\* run of the operation included; the handler itself is not enclosed
Caught(n, e) == n = 1 /\ IsSubclass(e.cls, "RuntimeError")

\* the operation ends by raising e: the facade catches it or lets it out
OpRaises(e) ==
    /\ failures' = Append(failures, e)
    /\ IF Caught(attempt, e)
       THEN fpc' = "except" /\ attempt' = 2 /\ UNCHANGED fresult
       ELSE fpc' = "ended" /\ fresult' = [kind |-> "raise", exc |-> e]
                           /\ UNCHANGED attempt

\* the operation fails before its request is sent
OpFailsEarly ==
    /\ fpc = "op"
    /\ \E e \in EarlyFailures : OpRaises(e)
    /\ UNCHANGED <<patched, driven, opruns, requests>>
    /\ FacadeRest

\* `await client.tts.synthesize_json(...)`: the request is sent
OpRequest ==
    /\ fpc = "op"
    /\ requests' = requests + 1
    /\ fpc' = "requested"
    /\ UNCHANGED <<attempt, patched, driven, opruns, failures, fresult>>
    /\ FacadeRest

\* the request fails, or the handling of its response does
OpFailsLate ==
    /\ fpc = "requested"
    /\ \E e \in LateFailures : OpRaises(e)
    /\ UNCHANGED <<patched, driven, opruns, requests>>
    /\ FacadeRest

\* the operation returns and the facade returns its result
OpReturns ==
    /\ fpc = "requested"
    /\ fpc' = "ended"
    /\ fresult' = [kind |-> "return"]
    /\ UNCHANGED <<attempt, patched, driven, opruns, requests, failures>>
    /\ FacadeRest

NextFacade ==
    \/ GetEventLoop
    \/ IsRunning
    \/ RunUntilComplete
    \/ AsyncioRun
    \/ OpFailsEarly
    \/ OpRequest
    \/ OpFailsLate
    \/ OpReturns

SpecFacade == FacadeInit /\ [][NextFacade]_vars

FacadeEnded == fpc = "ended"

\* C13: a facade drives an event loop itself when none is running and
\* reuses the running loop when there is one; in no execution are two event
\* loops driven for one call.
C13_OneLoopPerCall ==
    /\ Cardinality(driven) <= 1
    /\ env = "running" => driven \subseteq {"current"}
    /\ (FacadeEnded /\ env # "running") => driven # {}


\* C17: one call of a facade runs its asynchronous operation exactly once,
\* whatever the outcome: when the operation fails, with a RuntimeError
\* included, that failure is reported and no second request is sent to the
\* vendor.
C17_OperationRunsOnce ==
    /\ opruns <= 1
    /\ requests <= 1
    /\ FacadeEnded => opruns = 1
    /\ (FacadeEnded /\ failures # << >>) =>
          fresult = [kind |-> "raise", exc |-> failures[1]]


(***************************************************************************)
(* UTTSClient: the constructor assigns one attribute per adapter, in the   *)
(* order of its body, each from the API key of the adapter's vendor.       *)
(***************************************************************************)

DEFAULT_TIMEOUT == 10

\* the API key parameters of UTTSClient.__init__
KeyParams == {"openai", "elevenlabs", "replicate", "zyphra", "hume", "cartesia"}

\* what a caller passes for a key: nothing (None), an empty string, a key
KeyValues == {None, "", "sk-key"}

\* the attributes, in the order of assignment
Attributes == <<"openai", "elevenlabs", "kokoro", "orpheus", "zyphra", "hume", "cartesia">>

AdapterClass(attr) ==
    CASE attr = "openai" -> "OpenAIClient"
      [] attr = "elevenlabs" -> "ElevenLabsClient"
      [] attr = "kokoro" -> "KokoroClient"
      [] attr = "orpheus" -> "OrpheusClient"
      [] attr = "zyphra" -> "ZyphraClient"
      [] attr = "hume" -> "HumeProviderClient"
      [] attr = "cartesia" -> "CartesiaClient"

KeyOf_WrongKey(attr) ==
    IF attr = "kokoro" THEN "replicate"
    ELSE IF attr = "orpheus" THEN "zyphra"
    ELSE attr

\* the key parameter an attribute is built from
KeyOf(attr) == IF attr \in {"kokoro", "orpheus"} THEN "replicate" ELSE attr

\* `if key`: None and the empty string are false
Truthy(key) == key \notin {None, ""}

\* the attribute value None
NoAdapter == [cls |-> "NoneType", api_key |-> None, timeout |-> 0]

\* X(api_key=key, timeout=timeout): a configured adapter
NewAdapter(cls, key, t) == [cls |-> cls, api_key |-> key, timeout |-> t]

ClientInit ==
    /\ CoreIdle
    /\ AdapterIdle /\ FacadeIdle /\ WavIdle
    /\ keys \in [KeyParams -> KeyValues]
    /\ client = << >>

\* `self.x = X(api_key=x_api_key, timeout=timeout) if x_api_key else None`
Assign ==
    /\ keys # << >>
    /\ Len(client) < Len(Attributes)
    /\ LET attr == Attributes[Len(client) + 1]
           key == keys[KeyOf(attr)]
       IN  client' = Append(client,
                        IF Truthy(key)
                        THEN NewAdapter(AdapterClass(attr), key, DEFAULT_TIMEOUT)
                        ELSE NoAdapter)
    /\ UNCHANGED <<batchVars, timeoutVars, enumVars, adapterVars, facadeVars, wavVars,
                   keys>>

NextClient == Assign

SpecClient == ClientInit /\ [][NextClient]_vars

Constructed == keys # << >> /\ Len(client) = Len(Attributes)

\* the attribute of the client named attr
Attr(attr) == client[CHOOSE k \in 1 .. Len(Attributes) : Attributes[k] = attr]

\* C15: after UTTSClient is constructed, each adapter attribute is a
\* configured adapter if and only if the key of its vendor was supplied, and
\* None otherwise; a missing key is never an error (the constructor goes on);
\* kokoro and orpheus are both present exactly when the replicate key is
\* supplied.
C15_AdapterIffKey ==
    /\ (keys # << >> /\ ~Constructed) => ENABLED Assign
    /\ Constructed =>
          /\ \A k \in 1 .. Len(Attributes) :
                LET vendor == IF Attributes[k] \in {"kokoro", "orpheus"}
                              THEN "replicate" ELSE Attributes[k]
                IN  /\ (client[k] # NoAdapter) <=> keys[vendor] \notin {None, ""}
                    /\ client[k] # NoAdapter =>
                          /\ client[k].cls = AdapterClass(Attributes[k])
                          /\ client[k].api_key = keys[vendor]
                          /\ client[k].timeout = DEFAULT_TIMEOUT
          /\ (Attr("kokoro") # NoAdapter) <=> (Attr("orpheus") # NoAdapter)
          /\ (Attr("kokoro") # NoAdapter) <=> keys["replicate"] \notin {None, ""}

\* a client built with the replicate key and without the openai key
C15_Witness ==
    /\ Constructed
    /\ keys["replicate"] = "sk-key"
    /\ keys["openai"] = None
    /\ keys["hume"] = ""
    /\ Attr("kokoro") # NoAdapter
    /\ Attr("orpheus") # NoAdapter
    /\ Attr("openai") = NoAdapter


(***************************************************************************)
(* cartesia._wrap_pcm_f32_to_wav: float32 samples are scaled to int16 and  *)
(* written as a mono 16-bit WAV.  A float32 sample is the exact fraction   *)
(* <<n, d>> = n / d with d a power of two; its product with 32767.0 is     *)
(* exact in float32 for the samples drawn here.                            *)
(***************************************************************************)

MaxSamples == 2

\* `floats * 32767.0`
Scale == 32767

\* the bounds of np.clip
ClipLow == 0 - 32768
ClipHigh == 32767

\* the default of sample_rate
DefaultSampleRate == 44100

\* 0.0, 0.25, 0.5, 1.0, 2.0 and their negatives
SampleValues == { <<0, 1>>, <<1, 4>>, <<0 - 1, 4>>, <<1, 2>>, <<0 - 1, 2>>,
                  <<1, 1>>, <<0 - 1, 1>>, <<2, 1>>, <<0 - 2, 1>> }

\* the buffer [0.0, 0.5, -0.5, 1.0, -1.0]
KnownBuffer == << <<0, 1>>, <<1, 2>>, <<0 - 1, 2>>, <<1, 1>>, <<0 - 1, 1>> >>

\* x * 32767.0
Scaled(x) == <<x[1] * Scale, x[2]>>

\* np.clip(y, -32768, 32767)
Clip(y) ==
    IF y[1] < ClipLow * y[2] THEN <<ClipLow, 1>>
    ELSE IF y[1] > ClipHigh * y[2] THEN <<ClipHigh, 1>>
    ELSE y

Truncate_Floor(y) == y[1] \div y[2]

\* .astype(np.int16) of a value within the int16 range: the fraction is
\* dropped, towards zero
Truncate(y) ==
    IF y[1] >= 0 THEN y[1] \div y[2] ELSE 0 - ((0 - y[1]) \div y[2])

ToInt16(x) == Truncate(Clip(Scaled(x)))

\* ints.tobytes(): two bytes per sample, low byte first, two's complement
RECURSIVE ToBytes(_)
ToBytes(q) ==
    IF q = << >> THEN << >>
    ELSE LET u == (Head(q) + 65536) % 65536
         IN  <<u % 256, u \div 256>> \o ToBytes(Tail(q))

\* the 16-bit samples a reader of the WAV file decodes from its frames
RECURSIVE Decode(_)
Decode(bytes) ==
    IF Len(bytes) < 2 THEN << >>
    ELSE LET u == bytes[1] + 256 * bytes[2]
         IN  <<IF u >= 32768 THEN u - 65536 ELSE u>> \o Decode(Tail(Tail(bytes)))

RECURSIVE SeqsUpTo(_, _)
SeqsUpTo(S, n) ==
    IF n = 0 THEN { << >> }
    ELSE LET shorter == SeqsUpTo(S, n - 1)
         IN  shorter \cup { Append(q, x) : q \in shorter, x \in S }

WavInit ==
    /\ CoreIdle
    /\ AdapterIdle /\ FacadeIdle /\ ClientIdle
    /\ floats \in SeqsUpTo(SampleValues, MaxSamples) \cup {KnownBuffer}
    /\ sample_rate \in {DefaultSampleRate, DefaultSampleRate \div 2}
    /\ wpc = "frombuffer"
    /\ ints = << >>
    /\ wav = Unset

WavRest == UNCHANGED <<batchVars, timeoutVars, enumVars, adapterVars, facadeVars,
                       clientVars, floats, sample_rate>>

\* `ints = np.clip(floats * 32767.0, -32768, 32767).astype(np.int16)`
ScaleToInt16 ==
    /\ wpc = "frombuffer"
    /\ ints' = [k \in 1 .. Len(floats) |-> ToInt16(floats[k])]
    /\ wpc' = "write"
    /\ UNCHANGED wav
    /\ WavRest

\* the wave.open block: one channel, two bytes per sample, the frame rate,
\* then the frames
WriteWav ==
    /\ wpc = "write"
    /\ wav' = [nchannels |-> 1, sampwidth |-> 2, framerate |-> sample_rate,
               frames |-> ToBytes(ints)]
    /\ wpc' = "done"
    /\ UNCHANGED ints
    /\ WavRest

NextWav == ScaleToInt16 \/ WriteWav

SpecWav == WavInit /\ [][NextWav]_vars

Wrapped == wpc = "done"

\* C16 as stated: for [0.0, 0.5, -0.5, 1.0, -1.0] the 16-bit samples are
\* [0, 16383 or 16384, -16384 or -16383, 32767, -32768], and the output is
\* mono, 16-bit, at the configured sample rate.
C16_KnownBufferAsClaimed ==
    (Wrapped /\ floats = KnownBuffer) =>
        LET d == Decode(wav.frames)
        IN  /\ Len(d) = 5
            /\ d[1] = 0
            /\ d[2] \in {16383, 16384}
            /\ d[3] \in {0 - 16384, 0 - 16383}
            /\ d[4] = 32767
            /\ d[5] = 0 - 32768
            /\ wav.nchannels = 1 /\ wav.sampwidth = 2 /\ wav.framerate = sample_rate

\* C16, amended: for [0.0, 0.5, -0.5, 1.0, -1.0] the 16-bit samples are
\* [0, 16383, -16383, 32767, -32767]; every sample is its float times 32767,
\* clipped to [-32768, 32767], with the fraction dropped towards zero; the
\* output is mono, 16-bit, at the configured sample rate, one frame per
\* sample.
C16_ScaleClipTruncate ==
    Wrapped =>
        LET d == Decode(wav.frames)
        IN  /\ wav.nchannels = 1 /\ wav.sampwidth = 2 /\ wav.framerate = sample_rate
            /\ Len(wav.frames) = 2 * Len(floats)
            /\ Len(d) = Len(floats)
            /\ floats = KnownBuffer =>
                  d = <<0, 16383, 0 - 16383, 32767, 0 - 32767>>
            /\ \A k \in 1 .. Len(floats) :
                  LET n == floats[k][1] * 32767
                      den == floats[k][2]
                  IN  IF n >= 32767 * den THEN d[k] = 32767
                      ELSE IF n <= (0 - 32768) * den THEN d[k] = 0 - 32768
                      ELSE IF n >= 0
                      THEN d[k] >= 0 /\ d[k] * den <= n /\ n < (d[k] + 1) * den
                      ELSE d[k] <= 0 /\ (d[k] - 1) * den < n /\ n <= d[k] * den

\* the known buffer was wrapped: its last sample, -1.0, became -32767
C16_Witness ==
    /\ Wrapped
    /\ floats = KnownBuffer
    /\ Decode(wav.frames)[5] = 0 - 32767

====
